---- MODULE Spec2Model ----
(***************************************************************************)
(* Model of the speech-to-text task service of the repository:             *)
(*   controllers/taskController.js  (processVideoTask, submitTask,         *)
(*                                   getTaskStatus, getTaskResult)         *)
(*   models/Task.js                 (taskSchema)                           *)
(*   utils/fileHandler.js           (downloadVideoFromUrl, cleanupFiles)   *)
(*   services/videoProcessor.js     (extractAudio, splitAudio,             *)
(*                                   transcribeAudio, cleanupChunks)       *)
(* The Task collection, the temporary directory and every run of           *)
(* processVideoTask are the state; every await of the code is a step.      *)
(* The Agent Registry (agents/agent-registry), of which the repository     *)
(* holds the README and the API test script, is modelled from its          *)
(* specified operations: register, refresh, unregister, get, list; so is   *)
(* the Orchestrator (agents/Orchestrator), of which the repository holds   *)
(* the client: message, dispatch and the polls of a dispatched task.       *)
(* The course chat of the web application is modelled from                 *)
(*   webapp/frontend/src/pages/CourseViewPage.jsx  (sendMessage)           *)
(*   webapp/frontend/src/services/api.js           (orchestratorService)   *)
(***************************************************************************)
EXTENDS Integers, Sequences, FiniteSets, TLC

\* ------------------------------------------------------------------ bounds

\* Largest number of chunk files one run of splitAudio produces.
MaxChunks == 2

\* Largest reading of the clock.
MaxClock == 3

\* Largest version of the descriptor an agent serves.
MaxVersion == 2

\* Largest number of messages sent from the course chat.
MaxSends == 2

\* Largest number of status requests of the chat in flight at once.
MaxInFlight == 2

\* Task ids (uuid v4 strings in the code) and HTTP requests of the model.
TaskIds == {"t1", "t2"}
ReqIds == {"r1", "r2", "r3"}

\* The task whose run and whose polls Spec follows step by step.
Followed == {"t1"}

\* ------------------------------------------------------------- JS values

NULL == "<null>"
UNDEFINED == "<undefined>"
NoDoc == [missing |-> TRUE]
NoPath == [dir |-> "", stem |-> "", ext |-> ""]
TempDir == "temp_files"

\* No value yet.
NONE == "<none>"

IsSet(v) == v \notin {NULL, UNDEFINED}

\* ------------------------------------------------------------ models/Task

Statuses == {"PENDING", "DOWNLOADING", "EXTRACTING_AUDIO", "TRANSCRIBING", "DONE", "FAILED"}
Terminal == {"DONE", "FAILED"}

\* The paths of taskSchema (_id is the key of the collection).
SchemaPaths == {"url", "status", "text", "errorMessage", "createdAt", "updatedAt"}

\* The schema defaults when a document is constructed with the clock at
\* `time` (default: Date.now for both timestamps); url has none.
SchemaDefaults(time) ==
  [url |-> UNDEFINED, status |-> "PENDING", text |-> NULL, errorMessage |-> NULL, createdAt |-> time, updatedAt |-> time]

\* Mongoose strict mode: a key of `fields` that is no path of the schema is
\* dropped, on construction and on update alike.
StrictSet(doc, fields) == [p \in SchemaPaths |-> IF p \in DOMAIN fields THEN fields[p] ELSE doc[p]]

\* new Task(fields), constructed with the clock at `time`
NewTask(fields, time) == StrictSet(SchemaDefaults(time), fields)

\* Validation run by save(): url is required, status is one of the enum.
Validates(doc) == IsSet(doc.url) /\ doc.status \in Statuses

\* doc.<key> as JavaScript reads it: undefined for a key the document lacks.
Get(doc, key) == IF key \in DOMAIN doc THEN doc[key] ELSE UNDEFINED

\* ------------------------------------------------------------ video urls

\* A videoUrl of a request body: absent, or a string seen through the parts
\* the code looks at (the scheme that new URL needs, the extension of the
\* path).
VideoUrlMissing == [kind |-> "undefined", scheme |-> "", host |-> "", ext |-> ""]
VideoUrlEmpty == [kind |-> "string", scheme |-> "", host |-> "", ext |-> ""]
VideoUrlNoScheme == [kind |-> "string", scheme |-> "", host |-> "example.com", ext |-> ".mp4"]
VideoUrlWebm == [kind |-> "string", scheme |-> "https", host |-> "example.com", ext |-> ".webm"]
VideoUrlNoExt == [kind |-> "string", scheme |-> "https", host |-> "example.com", ext |-> ""]
VideoUrls == {VideoUrlMissing, VideoUrlEmpty, VideoUrlNoScheme, VideoUrlWebm, VideoUrlNoExt}

\* !videoUrl
Falsy(u) == u.kind = "undefined" \/ (u.scheme = "" /\ u.host = "" /\ u.ext = "")

\* new URL(videoUrl) does not throw
Parseable(u) == u.kind = "string" /\ u.scheme # ""

ValidUrls == {u \in VideoUrls : ~Falsy(u) /\ Parseable(u)}

\* ------------------------------------------------------------------ paths

\* The suffix downloadVideoFromUrl gives the downloaded file.
DownloadSuffix(u) == IF Parseable(u) /\ Len(u.ext) > 1 /\ Len(u.ext) <= 6 THEN u.ext ELSE ".mp4"

\* Mutant: the name of the downloaded file leaves the task id out.
TempFilePath_NoTaskId(t, u) == [dir |-> TempDir, stem |-> "downloaded", ext |-> DownloadSuffix(u)]

\* path.join(config.tempDir, `${taskId}_downloaded${suffix}`)
TempFilePath(t, u) == [dir |-> TempDir, stem |-> t \o "_downloaded", ext |-> DownloadSuffix(u)]

\* getFullAudioPath(baseFilename, 'mp3')
getFullAudioPath(p) == [dir |-> TempDir, stem |-> p.stem \o "_full_audio", ext |-> ".mp3"]

\* chunkDir of splitAudio and of cleanupChunks
ChunkDir(t) == [dir |-> TempDir, stem |-> t \o "_chunks", ext |-> ""]

\* The i-th file that ffmpeg writes for chunkPattern
ChunkPath(t, i) == [dir |-> TempDir \o "/" \o t \o "_chunks", stem |-> "chunk_00" \o ToString(i - 1), ext |-> ".mp3"]

\* --------------------------------------------- Agent Registry: the values

\* The urls callers give: one agent with and without a trailing slash, and
\* another agent.
AgentUrls == {"http://a.test", "http://a.test/", "http://b.test"}

\* The key of an AgentRecord: the url without its trailing slash.
Normalize(u) == IF Len(u) > 0 /\ SubSeq(u, Len(u), Len(u)) = "/" THEN SubSeq(u, 1, Len(u) - 1) ELSE u

NoCard == [name |-> UNDEFINED, url |-> UNDEFINED, version |-> 0, skills |-> <<>>]

\* The descriptor an agent serves at /.well-known/agent.json in its version
\* v; the first version declares no skill.
Descriptor(a, v) ==
  [name |-> "PDF Summarizer Agent", url |-> a, version |-> v, skills |-> IF v = 1 THEN <<>> ELSE <<"summarize-pdf">>]

\* A descriptor without its name.
Malformed(a) == [Descriptor(a, 1) EXCEPT !.name = UNDEFINED]

\* The required fields: name and url; the list of skills may be empty.
ValidDescriptor(d) == IsSet(d.name) /\ IsSet(d.url)

\* What the fetch of the descriptor under url u can give: a body, a status
\* that is no success, or nothing until the timeout.
FetchResults(u) ==
  {[kind |-> "ok", body |-> Descriptor(Normalize(u), v)] : v \in 1..MaxVersion}
    \cup {[kind |-> "ok", body |-> Malformed(Normalize(u))], [kind |-> "status", body |-> NoCard], [kind |-> "timeout", body |-> NoCard]}

NoRecord == [url |-> "", card |-> NoCard, registeredAt |-> 0, lastRefreshedAt |-> 0]

CallIds == {"c1", "c2"}
NoCall == [op |-> "none", url |-> "", phase |-> "idle", card |-> NoCard, result |-> NONE, returned |-> NoRecord, overlapped |-> FALSE]

\* ------------------------------------------------ Orchestrator: the values

\* The caller-visible task ids, the task ids of the agents, the POST message
\* requests and the GET task requests.
LocalIds == {"l1", "l2"}
RemoteIds == {"x1", "x2"}
MsgIds == {"m1", "m2"}
PollIds == {"p1", "p2"}

\* The messages callers send: one that names a skill, one that names none,
\* and an empty one.
Messages == {"please summarize-pdf", "translate this", ""}

NoSession == [localTaskId |-> NONE, remoteTaskId |-> NONE, agentUrl |-> "", createdAt |-> 0]
NoRelay == [status |-> NONE, content |-> NULL]
NoMessage == [phase |-> "none", message |-> "", agentUrl |-> "", taskId |-> NONE, error |-> NONE]
NoPoll == [phase |-> "idle", taskId |-> NONE, status |-> NONE, content |-> NULL, error |-> NONE, queried |-> FALSE]

\* The status vocabulary of the agents.
RemoteStatuses == {"working", "completed", "failed", "canceled"}

\* ------------------------------------------------- Course chat: the values

\* What the user types: a message, and blanks.
Inputs == {"hello", "  "}

\* The slots of the getTaskStatus requests that are in flight at once.
RequestIds == 1..MaxInFlight

NoRequestSent == [call |-> 0, phase |-> "none", response |-> NONE]

\* The statuses the orchestrator answers a poll with; the client knows the
\* last three.
ServedStatuses == {"working", "completed", "failed", "canceled"}

\* The message the conversation starts with.
Welcome == [role |-> "assistant", content |-> "Welcome to your course! How can I help you today?", temporary |-> FALSE]

ConnectError == "Sorry, there was an error connecting to the assistant service."
ProcessError == "Sorry, I encountered an error processing your request."
SendError == "Error: Network Error"

\* ------------------------------------------------------------------ state

VARIABLES
  tasks,            \* the Task collection: task id -> document, or NoDoc
  pc,               \* where each run of processVideoTask stands
  videoUrl,         \* processVideoTask: the videoUrl argument
  tempVideoPath,    \* processVideoTask: local tempVideoPath
  tempFullPath,     \* processVideoTask: local tempFullPath
  audioChunkPaths,  \* processVideoTask: local audioChunkPaths
  transcript,       \* processVideoTask: local transcript
  error,            \* processVideoTask: message of the error caught, or NULL
  storeFailed,      \* a findByIdAndUpdate of the run threw
  disk,             \* the paths that exist under config.tempDir
  detached,         \* fs.remove calls that were started and not awaited
  groqApiKey,       \* config.groqApiKey is set
  now,              \* the clock that Date.now() and new Date() read
  polled,           \* the last status each task's getTaskStatus returned
  fetched,          \* the last body each task's getTaskResult returned
  reqs,             \* the submitTask requests: phase, body, response
  registry,         \* the Agent collection: the AgentRecords, in insertion order
  calls,            \* the calls of the registry API: operation, phase, outcome
  sessions,         \* the DispatchSession collection: local task id -> session
  remote,           \* the tasks of the agents: remote task id -> status
  relayed,          \* the orchestrator's cache of terminal results, by local task id
  msgs,             \* the POST message requests: phase, agent selected, response
  tpolls,           \* the GET task requests: phase, task asked for, response
  isSending,        \* CourseViewPage: the isSending state
  messages,         \* CourseViewPage: the messages state, the conversation
  chats,            \* the sendMessage calls: where each stands, its interval
  requests,         \* the getTaskStatus requests of the polling callbacks
  served            \* what the orchestrator answers for the task of each call

procVars == <<pc, videoUrl, tempVideoPath, tempFullPath, audioChunkPaths, transcript, error, storeFailed>>
fsVars == <<disk, detached>>
readVars == <<polled, fetched>>
regVars == <<registry, calls>>
orchVars == <<sessions, remote, relayed, msgs, tpolls>>
chatVars == <<isSending, messages, chats, requests, served>>
taskVars == <<tasks, procVars, fsVars, groqApiKey, readVars, reqs>>
vars == <<tasks, procVars, fsVars, groqApiKey, now, readVars, reqs, regVars, orchVars, chatVars>>

NoRequest == [phase |-> "none", videoUrl |-> VideoUrlMissing, code |-> 0, message |-> NONE, taskId |-> NONE, logged |-> NONE]

\* A document as save() stores it for a valid Task: the schema defaults,
\* with the required url.
StoredUrl == "https://example.com/video"
PendingDoc == NewTask([url |-> StoredUrl], 0)

InitIdle ==
  /\ pc = [t \in TaskIds |-> "idle"]
  /\ videoUrl = [t \in TaskIds |-> VideoUrlMissing]
  /\ tempVideoPath = [t \in TaskIds |-> NoPath]
  /\ tempFullPath = [t \in TaskIds |-> NoPath]
  /\ audioChunkPaths = [t \in TaskIds |-> <<>>]
  /\ transcript = [t \in TaskIds |-> NULL]
  /\ error = [t \in TaskIds |-> NULL]
  /\ storeFailed = [t \in TaskIds |-> FALSE]
  /\ disk = {}
  /\ detached = {}
  /\ groqApiKey \in BOOLEAN
  /\ now = 0
  /\ polled = [t \in TaskIds |-> NONE]
  /\ fetched = [t \in TaskIds |-> [status |-> NONE, transcript |-> UNDEFINED, error |-> UNDEFINED]]
  /\ reqs = [r \in ReqIds |-> NoRequest]
  /\ calls = [c \in CallIds |-> NoCall]
  /\ sessions = [l \in LocalIds |-> NoSession]
  /\ remote = [x \in RemoteIds |-> "none"]
  /\ relayed = [l \in LocalIds |-> NoRelay]
  /\ msgs = [m \in MsgIds |-> NoMessage]
  /\ tpolls = [p \in PollIds |-> NoPoll]
  /\ isSending = FALSE
  /\ messages = <<Welcome>>
  /\ chats = <<>>
  /\ requests = [q \in RequestIds |-> NoRequestSent]
  /\ served = <<>>

\* Nothing is going on, and no agent is registered.
InitLocals ==
  /\ InitIdle
  /\ registry = <<>>

\* The collection holds PENDING documents, none of them being processed.
Init ==
  /\ tasks \in [TaskIds -> {NoDoc, PendingDoc}]
  /\ InitLocals

\* ---------------------------------------------------------- the Task store

\* What an await of Task.findByIdAndUpdate can give: the updated document,
\* null when no document has the id, or a rejection of the store.
UpdateOutcomes(t) == IF tasks[t] = NoDoc THEN {"null", "throw"} ELSE {"doc", "throw"}

\* taskSchema.pre('save'): this.updatedAt = Date.now()
preSave(doc) == [doc EXCEPT !.updatedAt = now]

\* Mutant: the update is applied as it was given.
preFindOneAndUpdate_Absent(update) == update

\* taskSchema.pre('findOneAndUpdate'): this.set({ updatedAt: new Date() })
preFindOneAndUpdate(update) == [updatedAt |-> now] @@ update

\* The collection after findByIdAndUpdate(t, update) found the document
\* (no upsert: a missing document stays missing); the query middleware runs
\* first.
findByIdAndUpdate(t, update) ==
  [tasks EXCEPT ![t] = IF @ = NoDoc THEN @ ELSE StrictSet(@, preFindOneAndUpdate(update))]

StoreError == "store error"

\* --------------------------------------------------------- transcribeAudio

\* What happens to one chunk: transcribed with text, transcribed without
\* text, skipped for its size (zero, or 25 MB and more), or failed.
ChunkOutcomes == {"text", "notext", "empty", "toobig", "failed"}

\* The text Groq returns for a chunk file.
TextOf(path) == path.stem

RECURSIVE Combined(_, _)
\* combinedTranscript after the loop over the chunks
Combined(paths, outcomes) ==
  IF paths = <<>> THEN ""
  ELSE IF Head(outcomes) = "text"
       THEN TextOf(Head(paths)) \o " " \o Combined(Tail(paths), Tail(outcomes))
       ELSE Combined(Tail(paths), Tail(outcomes))

RECURSIVE Trim(_)
\* String.prototype.trim, for a text that starts with no space
Trim(s) == IF Len(s) > 0 /\ SubSeq(s, Len(s), Len(s)) = " " THEN Trim(SubSeq(s, 1, Len(s) - 1)) ELSE s

\* The value transcribeAudio resolves with when the API key is configured.
transcribeAudio(paths, outcomes) == Trim(Combined(paths, outcomes))

\* --------------------------------------------------------- processVideoTask

\* Mutant: the error is thrown on to the caller of processVideoTask.
Caught_Rethrows(t, message) ==
  /\ error' = [error EXCEPT ![t] = message]
  /\ pc' = [pc EXCEPT ![t] = "rejected"]

\* The catch block is entered with `message`: the FAILED write is next.
Caught(t, message) ==
  /\ error' = [error EXCEPT ![t] = message]
  /\ pc' = [pc EXCEPT ![t] = "upd_FAILED"]

\* Mutant: a run is started for a task whose run has returned.
processVideoTask_Again(t, u) ==
  /\ pc[t] \in {"idle", "returned"}
  /\ pc' = [pc EXCEPT ![t] = "upd_DOWNLOADING"]
  /\ videoUrl' = [videoUrl EXCEPT ![t] = u]
  /\ UNCHANGED <<tasks, tempVideoPath, tempFullPath, audioChunkPaths, transcript, error, storeFailed, fsVars, groqApiKey, now, regVars, orchVars, chatVars, readVars, reqs>>

\* processVideoTask(taskId, videoUrl) is called, once for a task id, by
\* submitTask: it runs up to its first await, the DOWNLOADING write.
processVideoTask(t, u) ==
  /\ pc[t] = "idle"
  /\ pc' = [pc EXCEPT ![t] = "upd_DOWNLOADING"]
  /\ videoUrl' = [videoUrl EXCEPT ![t] = u]
  /\ UNCHANGED <<tasks, tempVideoPath, tempFullPath, audioChunkPaths, transcript, error, storeFailed, fsVars, groqApiKey, now, regVars, orchVars, chatVars, readVars, reqs>>

\* Mutant: a null that comes back is not looked at, the run goes on.
MarkStage_IgnoresMissing(t, at, status, next, notFound) ==
  /\ pc[t] = at
  /\ \E o \in UpdateOutcomes(t) :
       CASE o \in {"doc", "null"} ->
              /\ tasks' = findByIdAndUpdate(t, [status |-> status])
              /\ pc' = [pc EXCEPT ![t] = next]
              /\ UNCHANGED <<error, storeFailed>>
         [] o = "throw" ->
              /\ Caught(t, StoreError)
              /\ storeFailed' = [storeFailed EXCEPT ![t] = TRUE]
              /\ UNCHANGED tasks

\* An await of findByIdAndUpdate(taskId, { status }) settles at `at`: the
\* document comes back and the run goes on to `next`; or null comes back and
\* `notFound` is thrown; or the store rejects. Both throws enter the catch.
MarkStage(t, at, status, next, notFound) ==
  /\ pc[t] = at
  /\ \E o \in UpdateOutcomes(t) :
       CASE o = "doc" ->
              /\ tasks' = findByIdAndUpdate(t, [status |-> status])
              /\ pc' = [pc EXCEPT ![t] = next]
              /\ UNCHANGED <<error, storeFailed>>
         [] o = "null" ->
              /\ Caught(t, notFound)
              /\ UNCHANGED <<tasks, storeFailed>>
         [] o = "throw" ->
              /\ Caught(t, StoreError)
              /\ storeFailed' = [storeFailed EXCEPT ![t] = TRUE]
              /\ UNCHANGED tasks

\* 1. status DOWNLOADING; then downloadVideoFromUrl opens its write stream
\* and awaits the response.
MarkDownloading(t) ==
  /\ MarkStage(t, "upd_DOWNLOADING", "DOWNLOADING", "download", "Task not found after initial update.")
  /\ disk' = IF pc'[t] = "download" THEN disk \cup {TempFilePath(t, videoUrl[t])} ELSE disk
  /\ UNCHANGED <<videoUrl, tempVideoPath, tempFullPath, audioChunkPaths, transcript, detached, groqApiKey, now, regVars, orchVars, chatVars, readVars, reqs>>

\* config.downloadTimeout, in milliseconds (DOWNLOAD_TIMEOUT is not set)
downloadTimeout == 120000

\* The await of downloadVideoFromUrl settles, the axios request having been
\* made with `timeout`: the file is written; or the server answers with a
\* status outside 2xx; or the server stays silent, and the request is given
\* up after `timeout` milliseconds (never, when `timeout` is 0) with no
\* response received; in both failures of the request the partial file is
\* removed before the error is thrown. Or the stream or the writer fails,
\* and the removal of the partial file is started but not awaited.
Download(t, timeout) ==
  /\ pc[t] = "download"
  /\ \E o \in {"finish", "status", "silent", "stream", "writer"} :
       CASE o = "finish" ->
              /\ tempVideoPath' = [tempVideoPath EXCEPT ![t] = TempFilePath(t, videoUrl[t])]
              /\ pc' = [pc EXCEPT ![t] = "upd_EXTRACTING_AUDIO"]
              /\ UNCHANGED <<error, disk, detached>>
         [] o = "status" ->
              /\ disk' = disk \ {TempFilePath(t, videoUrl[t])}
              /\ Caught(t, "Download failed: Server responded with status 404")
              /\ UNCHANGED <<tempVideoPath, detached>>
         [] o = "silent" ->
              IF timeout > 0
              THEN /\ disk' = disk \ {TempFilePath(t, videoUrl[t])}
                   /\ Caught(t, "Download failed: No response received from server.")
                   /\ UNCHANGED <<tempVideoPath, detached>>
              ELSE /\ pc' = [pc EXCEPT ![t] = "download_unsettled"]
                   /\ UNCHANGED <<error, tempVideoPath, disk, detached>>
         [] o = "stream" ->
              /\ detached' = detached \cup {TempFilePath(t, videoUrl[t])}
              /\ Caught(t, "Download stream error: aborted")
              /\ UNCHANGED <<tempVideoPath, disk>>
         [] o = "writer" ->
              /\ detached' = detached \cup {TempFilePath(t, videoUrl[t])}
              /\ Caught(t, "Failed to write video file: ENOSPC")
              /\ UNCHANGED <<tempVideoPath, disk>>
  /\ UNCHANGED <<tasks, videoUrl, tempFullPath, audioChunkPaths, transcript, storeFailed, groqApiKey, now, regVars, orchVars, chatVars, readVars, reqs>>

\* Mutant: the request is made without a timeout.
downloadVideoFromUrl_NoTimeout(t) == Download(t, 0)

\* downloadVideoFromUrl(videoUrl, taskId), awaited by processVideoTask
downloadVideoFromUrl(t) == Download(t, downloadTimeout)

\* A removal that was started without await completes.
RemovePartialDownload(p) ==
  /\ p \in detached
  /\ detached' = detached \ {p}
  /\ disk' = disk \ {p}
  /\ UNCHANGED <<tasks, procVars, groqApiKey, now, regVars, orchVars, chatVars, readVars, reqs>>

\* 2. status EXTRACTING_AUDIO; then extractAudio starts ffmpeg.
MarkExtractingAudio(t) ==
  /\ MarkStage(t, "upd_EXTRACTING_AUDIO", "EXTRACTING_AUDIO", "extract", "Task not found before audio extraction.")
  /\ UNCHANGED <<videoUrl, tempVideoPath, tempFullPath, audioChunkPaths, transcript, fsVars, groqApiKey, now, regVars, orchVars, chatVars, readVars, reqs>>

\* extractAudio settles: ffmpeg ends and the audio file is there; or ffmpeg
\* fails, before or after it began to write its output file.
extractAudio(t) ==
  /\ pc[t] = "extract"
  /\ LET audioPath == getFullAudioPath(tempVideoPath[t]) IN
     \E o \in {"end", "error"}, written \in BOOLEAN :
       CASE o = "end" ->
              /\ written
              /\ disk' = disk \cup {audioPath}
              /\ tempFullPath' = [tempFullPath EXCEPT ![t] = audioPath]
              /\ pc' = [pc EXCEPT ![t] = "split"]
              /\ UNCHANGED error
         [] o = "error" ->
              /\ disk' = IF written THEN disk \cup {audioPath} ELSE disk
              /\ Caught(t, "ffmpeg error: conversion failed")
              /\ UNCHANGED tempFullPath
  /\ UNCHANGED <<tasks, videoUrl, tempVideoPath, audioChunkPaths, transcript, storeFailed, detached, groqApiKey, now, regVars, orchVars, chatVars, readVars, reqs>>

\* splitAudio settles, or does not: creating the chunk directory fails;
\* ffmpeg fails; ffmpeg ends and the chunk files are listed; ffmpeg ends with
\* no chunk file and the size of the source decides. A readdir or a stat that
\* throws inside the 'end' callback neither resolves nor rejects the promise.
splitAudio(t) ==
  /\ pc[t] = "split"
  /\ \E o \in {"mkdir", "ffmpeg", "end"}, n \in 0..MaxChunks, readdir \in {"ok", "throws"}, stat \in {"small", "large", "throws"} :
       CASE o = "mkdir" ->
              /\ n = 0 /\ readdir = "ok" /\ stat = "small"
              /\ Caught(t, "EACCES: permission denied, mkdir")
              /\ UNCHANGED <<disk, audioChunkPaths>>
         [] o = "ffmpeg" ->
              /\ n = 0 /\ readdir = "ok" /\ stat = "small"
              /\ disk' = disk \cup {ChunkDir(t)}
              /\ Caught(t, "ffmpeg splitting error: conversion failed")
              /\ UNCHANGED audioChunkPaths
         [] o = "end" ->
              /\ disk' = disk \cup {ChunkDir(t)}
              /\ IF readdir = "throws"
                 THEN /\ n = 0 /\ stat = "small"
                      /\ pc' = [pc EXCEPT ![t] = "split_unsettled"]
                      /\ UNCHANGED <<error, audioChunkPaths>>
                 ELSE IF n > 0
                 THEN /\ stat = "small"
                      /\ audioChunkPaths' = [audioChunkPaths EXCEPT ![t] = [i \in 1..n |-> ChunkPath(t, i)]]
                      /\ pc' = [pc EXCEPT ![t] = "upd_TRANSCRIBING"]
                      /\ UNCHANGED error
                 ELSE CASE stat = "small" ->
                             /\ audioChunkPaths' = [audioChunkPaths EXCEPT ![t] = <<tempFullPath[t]>>]
                             /\ pc' = [pc EXCEPT ![t] = "upd_TRANSCRIBING"]
                             /\ UNCHANGED error
                        [] stat = "large" ->
                             /\ Caught(t, "Audio splitting failed to produce chunk files for a large input.")
                             /\ UNCHANGED audioChunkPaths
                        [] stat = "throws" ->
                             /\ pc' = [pc EXCEPT ![t] = "split_unsettled"]
                             /\ UNCHANGED <<error, audioChunkPaths>>
  /\ UNCHANGED <<tasks, videoUrl, tempVideoPath, tempFullPath, transcript, storeFailed, detached, groqApiKey, now, regVars, orchVars, chatVars, readVars, reqs>>

\* Mutant: the write before transcription names an earlier stage.
MarkTranscribing_WrongStatus(t) ==
  /\ MarkStage(t, "upd_TRANSCRIBING", "DOWNLOADING", "transcribe", "Task not found before transcription.")
  /\ UNCHANGED <<videoUrl, tempVideoPath, tempFullPath, audioChunkPaths, transcript, fsVars, groqApiKey, now, regVars, orchVars, chatVars, readVars, reqs>>

\* 4. status TRANSCRIBING; then transcribeAudio is called.
MarkTranscribing(t) ==
  /\ MarkStage(t, "upd_TRANSCRIBING", "TRANSCRIBING", "transcribe", "Task not found before transcription.")
  /\ UNCHANGED <<videoUrl, tempVideoPath, tempFullPath, audioChunkPaths, transcript, fsVars, groqApiKey, now, regVars, orchVars, chatVars, readVars, reqs>>

\* transcribeAudio settles: it throws when no API key is configured, else it
\* resolves with the combined text; a null transcript is thrown as an error.
Transcribe(t) ==
  /\ pc[t] = "transcribe"
  /\ IF ~groqApiKey
     THEN /\ Caught(t, "Transcription failed: Groq API Key is not configured.")
          /\ UNCHANGED transcript
     ELSE \E outcomes \in [1..Len(audioChunkPaths[t]) -> ChunkOutcomes] :
            LET text == transcribeAudio(audioChunkPaths[t], outcomes) IN
            IF text \in {NULL, UNDEFINED}
            THEN /\ Caught(t, "Transcription resulted in empty text.")
                 /\ UNCHANGED transcript
            ELSE /\ transcript' = [transcript EXCEPT ![t] = text]
                 /\ pc' = [pc EXCEPT ![t] = "upd_DONE"]
                 /\ UNCHANGED error
  /\ UNCHANGED <<tasks, videoUrl, tempVideoPath, tempFullPath, audioChunkPaths, storeFailed, fsVars, groqApiKey, now, regVars, orchVars, chatVars, readVars, reqs>>

\* The await of the DONE write settles; `after` is where the run stands once
\* the document came back.
DoneWrite(t, after) ==
  /\ pc[t] = "upd_DONE"
  /\ \E o \in UpdateOutcomes(t) :
       CASE o = "doc" ->
              /\ tasks' = findByIdAndUpdate(t, [status |-> "DONE", transcript |-> transcript[t], errorMessage |-> NULL])
              /\ pc' = [pc EXCEPT ![t] = after]
              /\ error' = IF after = "upd_FAILED" THEN [error EXCEPT ![t] = "unexpected"] ELSE error
              /\ UNCHANGED storeFailed
         [] o = "null" ->
              /\ Caught(t, "Task not found when saving final result.")
              /\ UNCHANGED <<tasks, storeFailed>>
         [] o = "throw" ->
              /\ Caught(t, StoreError)
              /\ storeFailed' = [storeFailed EXCEPT ![t] = TRUE]
              /\ UNCHANGED tasks
  /\ UNCHANGED <<videoUrl, tempVideoPath, tempFullPath, audioChunkPaths, transcript, fsVars, groqApiKey, now, regVars, orchVars, chatVars, readVars, reqs>>

\* Mutant: a statement after the DONE write throws inside the try block.
MarkDone_ThenCatch(t) == DoneWrite(t, "upd_FAILED")

\* 5. status DONE with the transcript; the try block ends and the finally
\* block is next.
MarkDone(t) == DoneWrite(t, "cleanup_files")

\* The await of the write of the catch block settles: `update` is what it
\* writes, `afterThrow` is where the run stands when the store rejected.
FailedWrite(t, update, afterThrow) ==
  /\ pc[t] = "upd_FAILED"
  /\ \E o \in UpdateOutcomes(t) :
       CASE o = "doc" ->
              /\ tasks' = findByIdAndUpdate(t, update)
              /\ pc' = [pc EXCEPT ![t] = "cleanup_files"]
              /\ UNCHANGED storeFailed
         [] o = "null" ->
              /\ pc' = [pc EXCEPT ![t] = "cleanup_files"]
              /\ UNCHANGED <<tasks, storeFailed>>
         [] o = "throw" ->
              /\ storeFailed' = [storeFailed EXCEPT ![t] = TRUE]
              /\ pc' = [pc EXCEPT ![t] = afterThrow]
              /\ UNCHANGED tasks
  /\ UNCHANGED <<videoUrl, tempVideoPath, tempFullPath, audioChunkPaths, transcript, error, fsVars, groqApiKey, now, regVars, orchVars, chatVars, readVars, reqs>>

\* const errorMsg = `Task failed: ${error.message}`
errorMsg(t) == "Task failed: " \o error[t]

\* Mutant: a rejected FAILED write is tried again.
MarkFailed_Retries(t) == FailedWrite(t, [status |-> "FAILED", errorMessage |-> errorMsg(t)], "upd_FAILED")

\* Mutant: the rejection of the FAILED write escapes and the cleanup is skipped.
MarkFailed_Escapes(t) == FailedWrite(t, [status |-> "FAILED", errorMessage |-> errorMsg(t)], "returned")

\* Mutant: the FAILED write leaves the message out.
MarkFailed_NoMessage(t) == FailedWrite(t, [status |-> "FAILED"], "cleanup_files")

\* Mutant: the write of the catch block leaves the status out.
MarkFailed_NoStatus(t) == FailedWrite(t, [errorMessage |-> errorMsg(t)], "cleanup_files")

\* catch: status FAILED with the message; a rejection of this write is
\* logged and swallowed; the finally block is next.
MarkFailed(t) == FailedWrite(t, [status |-> "FAILED", errorMessage |-> errorMsg(t)], "cleanup_files")

\* finally: cleanupFiles(tempVideoPath, tempFullPath) removes each path that
\* is set and exists.
cleanupFiles(t) ==
  /\ pc[t] = "cleanup_files"
  /\ disk' = disk \ {p \in {tempVideoPath[t], tempFullPath[t]} : p # NoPath}
  /\ pc' = [pc EXCEPT ![t] = "cleanup_chunks"]
  /\ UNCHANGED <<tasks, videoUrl, tempVideoPath, tempFullPath, audioChunkPaths, transcript, error, storeFailed, detached, groqApiKey, now, regVars, orchVars, chatVars, readVars, reqs>>

\* finally: cleanupChunks(taskId) removes the chunk directory; the run ends.
cleanupChunks(t) ==
  /\ pc[t] = "cleanup_chunks"
  /\ disk' = disk \ {ChunkDir(t)}
  /\ pc' = [pc EXCEPT ![t] = "returned"]
  /\ UNCHANGED <<tasks, videoUrl, tempVideoPath, tempFullPath, audioChunkPaths, transcript, error, storeFailed, detached, groqApiKey, now, regVars, orchVars, chatVars, readVars, reqs>>

\* One step of the run of processVideoTask for t.
ProcessorStep(t) ==
  \/ MarkDownloading(t)
  \/ downloadVideoFromUrl(t)
  \/ MarkExtractingAudio(t)
  \/ extractAudio(t)
  \/ splitAudio(t)
  \/ MarkTranscribing(t)
  \/ Transcribe(t)
  \/ MarkDone(t)
  \/ MarkFailed(t)
  \/ cleanupFiles(t)
  \/ cleanupChunks(t)

\* The document of t is removed from the collection by something other than
\* this service, which has no operation that deletes one: the case that the
\* tests of the processor for a null document are written for.
TaskRemoved(t) ==
  /\ tasks[t] # NoDoc
  /\ tasks' = [tasks EXCEPT ![t] = NoDoc]
  /\ UNCHANGED <<procVars, fsVars, groqApiKey, now, regVars, orchVars, chatVars, readVars, reqs>>

\* ------------------------------------------------------------------ clock

\* Time passes between two steps: the next Date.now() reads a later time.
Tick ==
  /\ now < MaxClock
  /\ now' = now + 1
  /\ UNCHANGED <<tasks, procVars, fsVars, groqApiKey, readVars, reqs, regVars, orchVars, chatVars>>

\* ------------------------------------------------- getTaskStatus, getTaskResult

NoBody == [status |-> NONE, transcript |-> UNDEFINED, error |-> UNDEFINED]

\* The 200 body of getTaskResult (the fields the claims speak of).
TaskResultBody(doc) == [status |-> doc.status, transcript |-> Get(doc, "transcript"), error |-> Get(doc, "errorMessage")]

\* GET /api/tasks/:taskId/status: the 200 response carries the status; a 404
\* or a 500 carries none and leaves the reader with what it saw last.
getTaskStatus(t) ==
  /\ polled' = [polled EXCEPT ![t] = IF tasks[t] = NoDoc THEN @ ELSE tasks[t].status]
  /\ UNCHANGED <<tasks, procVars, fsVars, groqApiKey, now, regVars, orchVars, chatVars, fetched, reqs>>

\* GET /api/tasks/:taskId/result
getTaskResult(t) ==
  /\ fetched' = [fetched EXCEPT ![t] = IF tasks[t] = NoDoc THEN @ ELSE TaskResultBody(tasks[t])]
  /\ UNCHANGED <<tasks, procVars, fsVars, groqApiKey, now, regVars, orchVars, chatVars, polled, reqs>>

\* ------------------------------------------------------------- submitTask

\* What await newTask.save() can give: validation rejects a document that
\* does not satisfy the schema before the store is reached; a valid document
\* is stored, unless the store rejects.
SaveOutcomes(doc) == IF Validates(doc) THEN {"saved", "store"} ELSE {"validation"}

ValidationError == "Task validation failed: url: Path url is required."

\* The request after the checks of submitTask: answered 400, or awaiting
\* save(). `checkFormat` is whether new URL(videoUrl) is tried.
Checked(u, checkFormat) ==
  IF Falsy(u)
  THEN [NoRequest EXCEPT !.phase = "responded", !.videoUrl = u, !.code = 400, !.message = "Missing videoUrl in request body"]
  ELSE IF checkFormat /\ ~Parseable(u)
  THEN [NoRequest EXCEPT !.phase = "responded", !.videoUrl = u, !.code = 400, !.message = "Invalid videoUrl format"]
  ELSE [NoRequest EXCEPT !.phase = "saving", !.videoUrl = u]

\* Mutant: the format of videoUrl is not checked.
submitTask_NoUrlCheck(r, u) ==
  /\ reqs[r].phase = "none"
  /\ reqs' = [reqs EXCEPT ![r] = Checked(u, FALSE)]
  /\ UNCHANGED <<tasks, procVars, fsVars, groqApiKey, now, regVars, orchVars, chatVars, readVars>>

\* POST /api/tasks arrives with body { videoUrl: u }: the two checks, then
\* new Task({ videoUrl }) and the await of save().
submitTask(r, u) ==
  /\ reqs[r].phase = "none"
  /\ reqs' = [reqs EXCEPT ![r] = Checked(u, TRUE)]
  /\ UNCHANGED <<tasks, procVars, fsVars, groqApiKey, now, regVars, orchVars, chatVars, readVars>>

\* save() settles. Saved: processVideoTask is called without await and runs
\* up to its first await, then the 202 response is sent. Rejected: 500.
submitTaskSaved(r) ==
  /\ reqs[r].phase = "saving"
  /\ LET u == reqs[r].videoUrl
         newTask == NewTask([videoUrl |-> u], now)
     IN \E o \in SaveOutcomes(newTask) :
          IF o = "saved"
          THEN \E t \in TaskIds :
                 /\ tasks[t] = NoDoc /\ pc[t] = "idle"
                 /\ tasks' = [tasks EXCEPT ![t] = preSave(newTask)]
                 /\ pc' = [pc EXCEPT ![t] = "upd_DOWNLOADING"]
                 /\ videoUrl' = [videoUrl EXCEPT ![t] = u]
                 /\ reqs' = [reqs EXCEPT ![r] = [@ EXCEPT !.phase = "responded", !.code = 202, !.taskId = t]]
          ELSE /\ reqs' = [reqs EXCEPT ![r] = [@ EXCEPT !.phase = "responded", !.code = 500,
                                                 !.message = "Failed to create processing task.",
                                                 !.logged = IF o = "validation" THEN ValidationError ELSE StoreError]]
               /\ UNCHANGED <<tasks, pc, videoUrl>>
  /\ UNCHANGED <<tempVideoPath, tempFullPath, audioChunkPaths, transcript, error, storeFailed, fsVars, groqApiKey, now, regVars, orchVars, chatVars, readVars>>

\* ---------------------------------------------------------- Agent Registry

\* The positions of the records of `reg` whose url is `key`.
Find(reg, key) == {i \in 1..Len(reg) : reg[i].url = key}

\* get: the record of `reg` with url `key`, or NoRecord.
Lookup(reg, key) == IF Find(reg, key) = {} THEN NoRecord ELSE reg[CHOOSE i \in Find(reg, key) : TRUE]

\* list()
list == registry

\* The record with url `key` gets the card and the time of refresh; the
\* collection is left alone when it has no such record.
update(reg, key, card, time) ==
  [i \in 1..Len(reg) |-> IF reg[i].url = key THEN [reg[i] EXCEPT !.card = card, !.lastRefreshedAt = time] ELSE reg[i]]

\* Mutant: a record is added whether or not the url is known.
upsert_Insert(reg, key, card, time) ==
  Append(reg, [url |-> key, card |-> card, registeredAt |-> time, lastRefreshedAt |-> time])

\* Mutant: an update of a known url replaces the version and keeps the rest
\* of the card.
upsert_Merge(reg, key, card, time) ==
  IF Find(reg, key) = {}
  THEN Append(reg, [url |-> key, card |-> card, registeredAt |-> time, lastRefreshedAt |-> time])
  ELSE [i \in 1..Len(reg) |-> IF reg[i].url = key THEN [reg[i] EXCEPT !.card.version = card.version, !.lastRefreshedAt = time] ELSE reg[i]]

\* The atomic upsert by url: a known url has its card and its time of
\* refresh replaced, an unknown url gets a new record.
upsert(reg, key, card, time) ==
  IF Find(reg, key) = {}
  THEN Append(reg, [url |-> key, card |-> card, registeredAt |-> time, lastRefreshedAt |-> time])
  ELSE update(reg, key, card, time)

\* Mutant: the record is kept.
delete_KeepsRecord(reg, key) == reg

\* The records of `reg` without the one with url `key`.
delete(reg, key) == SelectSeq(reg, LAMBDA rec : rec.url # key)

\* A call is in flight: it has begun and has not answered.
InFlight(c) == calls[c].phase \in {"fetching", "writing"}

\* The calls in flight on the url that u names, other than c.
Others(c, u) == {d \in CallIds \ {c} : InFlight(d) /\ Normalize(calls[d].url) = Normalize(u)}

\* A call c begins with operation op on url u; it answers at once with
\* `result` when `answered`, and else goes on to fetch the descriptor.
Begin(c, op, u, answered, result) ==
  [d \in CallIds |->
     IF d = c
     THEN [NoCall EXCEPT !.op = op, !.url = u, !.phase = IF answered THEN "done" ELSE "fetching",
                          !.result = result, !.overlapped = ~answered /\ Others(c, u) # {}]
     ELSE IF ~answered /\ d \in Others(c, u) THEN [calls[d] EXCEPT !.overlapped = TRUE] ELSE calls[d]]

\* register(url) is called: the descriptor is requested.
register(c, u) ==
  /\ ~InFlight(c)
  /\ calls' = Begin(c, "register", u, FALSE, NONE)
  /\ UNCHANGED <<registry, taskVars, now, orchVars, chatVars>>

\* refresh(url) is called: NotFound when the url has no record, and else the
\* descriptor is requested.
refresh(c, u) ==
  /\ ~InFlight(c)
  /\ IF Find(registry, Normalize(u)) = {}
     THEN calls' = Begin(c, "refresh", u, TRUE, "NotFound")
     ELSE calls' = Begin(c, "refresh", u, FALSE, NONE)
  /\ UNCHANGED <<registry, taskVars, now, orchVars, chatVars>>

\* The fetch of a call settles and the descriptor is validated: the call
\* fails with UnreachableAgent or MalformedDescriptor, or goes on to its
\* write with the card. `persistInvalid` is whether a body is stored before
\* it is validated.
FetchSettles(c, persistInvalid) ==
  /\ calls[c].phase = "fetching"
  /\ \E f \in FetchResults(calls[c].url) :
       IF f.kind # "ok"
       THEN /\ calls' = [calls EXCEPT ![c] = [@ EXCEPT !.phase = "done", !.result = "UnreachableAgent"]]
            /\ UNCHANGED registry
       ELSE IF ~ValidDescriptor(f.body)
       THEN /\ calls' = [calls EXCEPT ![c] = [@ EXCEPT !.phase = "done", !.result = "MalformedDescriptor"]]
            /\ registry' = IF persistInvalid THEN upsert(registry, Normalize(calls[c].url), f.body, now) ELSE registry
       ELSE /\ calls' = [calls EXCEPT ![c] = [@ EXCEPT !.phase = "writing", !.card = f.body]]
            /\ UNCHANGED registry
  /\ UNCHANGED <<taskVars, now, orchVars, chatVars>>

\* Mutant: the fetched body is stored before it is validated.
Fetched_PersistsInvalid(c) == FetchSettles(c, TRUE)

\* The fetch-and-validate step of register and of refresh.
Fetched(c) == FetchSettles(c, FALSE)

\* The write of register: the upsert by normalized url; the call returns the
\* stored record.
registerWrite(c) ==
  /\ calls[c].op = "register" /\ calls[c].phase = "writing"
  /\ LET key == Normalize(calls[c].url) IN
       /\ registry' = upsert(registry, key, calls[c].card, now)
       /\ calls' = [calls EXCEPT ![c] = [@ EXCEPT !.phase = "done", !.result = "ok", !.returned = Lookup(registry', key)]]
  /\ UNCHANGED <<taskVars, now, orchVars, chatVars>>

\* Mutant: the write of refresh is the upsert of register.
refreshWrite_Upserts(c) ==
  /\ calls[c].op = "refresh" /\ calls[c].phase = "writing"
  /\ LET key == Normalize(calls[c].url) IN
       /\ registry' = upsert(registry, key, calls[c].card, now)
       /\ calls' = [calls EXCEPT ![c] = [@ EXCEPT !.phase = "done", !.result = "ok", !.returned = Lookup(registry', key)]]
  /\ UNCHANGED <<taskVars, now, orchVars, chatVars>>

\* The write of refresh: the card and the time of refresh of the record are
\* replaced; NotFound when the record is no longer there.
refreshWrite(c) ==
  /\ calls[c].op = "refresh" /\ calls[c].phase = "writing"
  /\ LET key == Normalize(calls[c].url) IN
       IF Find(registry, key) = {}
       THEN /\ calls' = [calls EXCEPT ![c] = [@ EXCEPT !.phase = "done", !.result = "NotFound"]]
            /\ UNCHANGED registry
       ELSE /\ registry' = update(registry, key, calls[c].card, now)
            /\ calls' = [calls EXCEPT ![c] = [@ EXCEPT !.phase = "done", !.result = "ok", !.returned = Lookup(registry', key)]]
  /\ UNCHANGED <<taskVars, now, orchVars, chatVars>>

\* unregister(url): the record is deleted; a url without record is no error.
unregister(c, u) ==
  /\ ~InFlight(c)
  /\ registry' = delete(registry, Normalize(u))
  /\ calls' = Begin(c, "unregister", u, TRUE, "ok")
  /\ UNCHANGED <<taskVars, now, orchVars, chatVars>>

\* get(url): the record whose url is exactly u, or NotFound.
get(c, u) ==
  /\ ~InFlight(c)
  /\ calls' = [Begin(c, "get", u, TRUE, IF Find(registry, u) = {} THEN "NotFound" ELSE "ok")
                 EXCEPT ![c].returned = Lookup(registry, u)]
  /\ UNCHANGED <<registry, taskVars, now, orchVars, chatVars>>

\* -------------------------------------------------------------- Orchestrator

\* The keyword match: the text holds the word.
Contains(text, word) ==
  \E i \in 1..Len(text) : i + Len(word) - 1 <= Len(text) /\ SubSeq(text, i, i + Len(word) - 1) = word

\* Mutant: every registered agent is capable of every request.
Capable_Any(reg, text) == 1..Len(reg)

\* Capability match: the positions of the records of `reg` that declare a
\* skill the message names.
Capable(reg, text) ==
  {i \in 1..Len(reg) : \E k \in 1..Len(reg[i].card.skills) : Contains(text, reg[i].card.skills[k])}

\* Mutant: the new id is any id, used or not.
NewTaskId_Reused(ids, used) == CHOOSE id \in ids : TRUE

\* A new task id: one that no task has.
NewTaskId(ids, used) == CHOOSE id \in ids \ used : TRUE

\* Mutant: a canceled remote task is relayed as pending.
MapStatus_CanceledPending(st) ==
  CASE st = "working" -> "pending"
    [] st = "completed" -> "done"
    [] st = "failed" -> "failed"
    [] st = "canceled" -> "pending"

\* The remote status vocabulary mapped onto the caller-visible one.
MapStatus(st) ==
  CASE st = "working" -> "pending"
    [] st = "completed" -> "done"
    [] st = "failed" -> "failed"
    [] st = "canceled" -> "failed"

\* The caller-visible statuses that end a relay.
RelayTerminal == {"done", "failed"}

\* The content an agent returns with the status of its task x.
ContentOf(x, st) == IF st = "completed" THEN "result of " \o x ELSE NULL

\* POST message: the message is validated and matched against the registry.
\* An empty message and a message no agent is capable of are answered at
\* once; else an agent is selected and a task is submitted to it.
message(m, text) ==
  /\ msgs[m].phase = "none"
  /\ IF text = ""
     THEN msgs' = [msgs EXCEPT ![m] = [NoMessage EXCEPT !.phase = "answered", !.message = text, !.error = "ValidationError"]]
     ELSE IF Capable(registry, text) = {}
     THEN msgs' = [msgs EXCEPT ![m] = [NoMessage EXCEPT !.phase = "answered", !.message = text, !.error = "NoCapableAgent"]]
     ELSE \E i \in Capable(registry, text) :
            msgs' = [msgs EXCEPT ![m] = [NoMessage EXCEPT !.phase = "dispatching", !.message = text, !.agentUrl = registry[i].url]]
  /\ UNCHANGED <<taskVars, now, regVars, chatVars, sessions, remote, relayed, tpolls>>

\* The submission to the selected agent settles. Accepted: the agent has a
\* new task, the DispatchSession of a new local task id is recorded and the
\* local id is returned. Failed: the failure is returned, nothing is
\* recorded and nothing is tried again.
dispatch(m) ==
  /\ msgs[m].phase = "dispatching"
  /\ \E o \in {"accepted", "failed"} :
       IF o = "accepted"
       THEN LET l == NewTaskId(LocalIds, {k \in LocalIds : sessions[k] # NoSession})
                x == NewTaskId(RemoteIds, {k \in RemoteIds : remote[k] # "none"})
            IN /\ remote' = [remote EXCEPT ![x] = "working"]
               /\ sessions' = [sessions EXCEPT ![l] = [localTaskId |-> l, remoteTaskId |-> x, agentUrl |-> msgs[m].agentUrl, createdAt |-> now]]
               /\ msgs' = [msgs EXCEPT ![m] = [@ EXCEPT !.phase = "answered", !.taskId = l]]
       ELSE /\ msgs' = [msgs EXCEPT ![m] = [@ EXCEPT !.phase = "answered", !.error = "DispatchFailed"]]
            /\ UNCHANGED <<sessions, remote>>
  /\ UNCHANGED <<taskVars, now, regVars, chatVars, relayed, tpolls>>

\* The agent ends its task x.
agentEnds(x) ==
  /\ remote[x] = "working"
  /\ \E st \in RemoteStatuses \ {"working"} : remote' = [remote EXCEPT ![x] = st]
  /\ UNCHANGED <<taskVars, now, regVars, chatVars, sessions, relayed, msgs, tpolls>>

\* GET task: the DispatchSession of the local id is looked up. No session:
\* NotFound. A cached terminal result is returned as it is; else the agent
\* of the session is asked for the status of the remote task.
getTask(p, l) ==
  /\ tpolls[p].phase # "querying"
  /\ tpolls' = [tpolls EXCEPT ![p] =
       IF sessions[l] = NoSession
       THEN [NoPoll EXCEPT !.phase = "answered", !.taskId = l, !.error = "NotFound"]
       ELSE IF relayed[l] # NoRelay
       THEN [NoPoll EXCEPT !.phase = "answered", !.taskId = l, !.status = relayed[l].status, !.content = relayed[l].content]
       ELSE [NoPoll EXCEPT !.phase = "querying", !.taskId = l, !.queried = TRUE]]
  /\ UNCHANGED <<taskVars, now, regVars, chatVars, sessions, remote, relayed, msgs>>

\* The query of the agent settles. Answered: the status is mapped and
\* returned, and a terminal result is cached. Unreachable: a transient error
\* is returned, nothing is cached and nothing is tried again.
agentAnswers(p) ==
  /\ tpolls[p].phase = "querying"
  /\ LET l == tpolls[p].taskId
         x == sessions[l].remoteTaskId
         st == MapStatus(remote[x])
     IN \E o \in {"status", "unreachable"} :
          IF o = "status"
          THEN /\ tpolls' = [tpolls EXCEPT ![p] = [@ EXCEPT !.phase = "answered", !.status = st, !.content = ContentOf(x, remote[x])]]
               /\ relayed' = IF st \in RelayTerminal
                             THEN [relayed EXCEPT ![l] = [status |-> st, content |-> ContentOf(x, remote[x])]]
                             ELSE relayed
          ELSE /\ tpolls' = [tpolls EXCEPT ![p] = [@ EXCEPT !.phase = "answered", !.error = "TransientError"]]
               /\ UNCHANGED relayed
  /\ UNCHANGED <<taskVars, now, regVars, chatVars, sessions, remote, msgs>>

\* --------------------------------------------- Course chat: sendMessage

\* prev.filter(msg => !msg.temporary)
NotTemporary(prev) == SelectSeq(prev, LAMBDA msg : ~msg.temporary)

UserMessage(text) == [role |-> "user", content |-> text, temporary |-> FALSE]
AssistantMessage(text) == [role |-> "assistant", content |-> text, temporary |-> FALSE]
Thinking == [role |-> "assistant", content |-> "Thinking...", temporary |-> TRUE]

\* taskResponse.content of the task of call c
ContentFor(c) == "answer " \o ToString(c)

\* sendMessage is called (the input is disabled while isSending): blanks
\* return at once; else isSending is set, the user's message is appended and
\* the message is posted to the orchestrator.
sendMessage(text) ==
  /\ ~isSending
  /\ Len(chats) < MaxSends
  /\ IF Trim(text) = ""
     THEN UNCHANGED chatVars
     ELSE /\ isSending' = TRUE
          /\ messages' = Append(messages, UserMessage(text))
          /\ chats' = Append(chats, [phase |-> "posting", taskId |-> NONE, polling |-> FALSE])
          /\ served' = Append(served, "none")
          /\ UNCHANGED requests
  /\ UNCHANGED <<taskVars, now, regVars, orchVars>>

\* The post of call c settles. With a task id: the temporary message is
\* appended and the interval is set. Without one, or with a throw: one error
\* message is appended and isSending is reset.
sendMessageSettles(c) ==
  /\ chats[c].phase = "posting"
  /\ \E o \in {"task", "notask", "throws"} :
       CASE o = "task" ->
              /\ messages' = Append(messages, Thinking)
              /\ chats' = [chats EXCEPT ![c] = [phase |-> "polling", taskId |-> "task " \o ToString(c), polling |-> TRUE]]
              /\ served' = [served EXCEPT ![c] = "working"]
              /\ UNCHANGED isSending
         [] o = "notask" ->
              /\ messages' = Append(NotTemporary(messages), AssistantMessage(ConnectError))
              /\ isSending' = FALSE
              /\ chats' = [chats EXCEPT ![c].phase = "ended"]
              /\ UNCHANGED served
         [] o = "throws" ->
              /\ isSending' = FALSE
              /\ messages' = Append(messages, AssistantMessage(SendError))
              /\ chats' = [chats EXCEPT ![c].phase = "ended"]
              /\ UNCHANGED served
  /\ UNCHANGED <<taskVars, now, regVars, orchVars, requests>>

\* The interval of call c fires: its callback runs up to the await of
\* getTaskStatus, whether or not an earlier request is still in flight.
pollingCallback(c, q) ==
  /\ chats[c].polling
  /\ requests[q].phase # "inflight"
  /\ requests' = [requests EXCEPT ![q] = [call |-> c, phase |-> "inflight", response |-> NONE]]
  /\ UNCHANGED <<taskVars, now, regVars, orchVars, isSending, messages, chats, served>>

\* The orchestrator ends the task of call c.
taskEnds(c) ==
  /\ served[c] = "working"
  /\ \E st \in ServedStatuses \ {"working"} : served' = [served EXCEPT ![c] = st]
  /\ UNCHANGED <<taskVars, now, regVars, orchVars, isSending, messages, chats, requests>>

\* The await of getTaskStatus in the callback settles for request q; the
\* catch block clears the interval when `clears`.
Settles(q, clears) ==
  /\ requests[q].phase = "inflight"
  /\ LET c == requests[q].call IN
     \E o \in {"status", "throws"} :
       LET r == IF o = "status" THEN served[c] ELSE "throws" IN
       /\ requests' = [requests EXCEPT ![q] = [@ EXCEPT !.phase = "returned", !.response = r]]
       /\ CASE r = "completed" ->
                 /\ chats' = [chats EXCEPT ![c] = [@ EXCEPT !.polling = FALSE, !.phase = "stopped"]]
                 /\ messages' = Append(NotTemporary(messages), AssistantMessage(ContentFor(c)))
                 /\ isSending' = FALSE
            [] r \in {"failed", "canceled"} ->
                 /\ chats' = [chats EXCEPT ![c] = [@ EXCEPT !.polling = FALSE, !.phase = "stopped"]]
                 /\ messages' = Append(NotTemporary(messages), AssistantMessage(ProcessError))
                 /\ isSending' = FALSE
            [] r = "throws" ->
                 /\ chats' = IF clears THEN [chats EXCEPT ![c] = [@ EXCEPT !.polling = FALSE, !.phase = "stopped"]] ELSE chats
                 /\ isSending' = FALSE
                 /\ UNCHANGED messages
            [] OTHER ->
                 UNCHANGED <<chats, messages, isSending>>
  /\ UNCHANGED <<taskVars, now, regVars, orchVars, served>>

\* Mutant: the catch block of the callback leaves the interval running.
pollingSettles_KeepsPolling(q) == Settles(q, FALSE)

\* The callback after its await: completed, failed or canceled, and a throw,
\* clear the interval and reset isSending; any other status does nothing.
pollingSettles(q) == Settles(q, TRUE)

\* ------------------------------------------------------------ specification

\* The run of processVideoTask for the followed task, with its readers.
Next ==
  \/ \E t \in Followed, u \in ValidUrls : processVideoTask(t, u)
  \/ \E t \in Followed : ProcessorStep(t)
  \/ \E p \in detached : RemovePartialDownload(p)
  \/ \E t \in Followed : getTaskStatus(t)
  \/ \E t \in Followed : getTaskResult(t)

Spec == Init /\ [][Next]_vars

\* The submissions.
NextSubmit ==
  \/ \E r \in ReqIds, u \in VideoUrls : submitTask(r, u)
  \/ \E r \in ReqIds : submitTaskSaved(r)

SpecSubmit == Init /\ [][NextSubmit]_vars

\* The run of processVideoTask under the scheduling of the event loop: every
\* awaited operation that can settle does settle (the store answers, the
\* download and ffmpeg end one way or the other) and the run is resumed; a
\* started removal completes. A promise that nothing resolves or rejects
\* (split_unsettled) is not resumed.
Fairness ==
  /\ \A t \in Followed : WF_vars(ProcessorStep(t))
  /\ WF_vars(\E p \in detached : RemovePartialDownload(p))

NextRun ==
  \/ \E t \in Followed, u \in ValidUrls : processVideoTask(t, u)
  \/ \E t \in Followed : ProcessorStep(t)
  \/ \E p \in detached : RemovePartialDownload(p)

SpecRun == Init /\ [][NextRun]_vars /\ Fairness

\* The submissions and the run of the followed task, side by side.
NextServe ==
  \/ \E r \in ReqIds, u \in VideoUrls : submitTask(r, u)
  \/ \E r \in ReqIds : submitTaskSaved(r)
  \/ \E t \in Followed, u \in ValidUrls : processVideoTask(t, u)
  \/ \E t \in Followed : ProcessorStep(t)
  \/ \E p \in detached : RemovePartialDownload(p)

SpecServe == Init /\ [][NextServe]_vars

\* The runs of two tasks, side by side.
NextPair ==
  \/ \E t \in TaskIds, u \in ValidUrls : processVideoTask(t, u)
  \/ \E t \in TaskIds : ProcessorStep(t)
  \/ \E p \in detached : RemovePartialDownload(p)

SpecPair == Init /\ [][NextPair]_vars

\* The run of the followed task while time passes.
NextClock ==
  \/ \E t \in Followed, u \in ValidUrls : processVideoTask(t, u)
  \/ \E t \in Followed : ProcessorStep(t)
  \/ \E p \in detached : RemovePartialDownload(p)
  \/ Tick

SpecClock == Init /\ [][NextClock]_vars

\* The run of the followed task while its document may be removed.
NextGone ==
  \/ \E t \in Followed, u \in ValidUrls : processVideoTask(t, u)
  \/ \E t \in Followed : ProcessorStep(t)
  \/ \E p \in detached : RemovePartialDownload(p)
  \/ \E t \in Followed : TaskRemoved(t)

SpecGone == Init /\ [][NextGone]_vars /\ Fairness

\* The calls of the registry API, side by side.
NextRegistry ==
  \/ \E c \in CallIds, u \in AgentUrls : register(c, u)
  \/ \E c \in CallIds, u \in AgentUrls : refresh(c, u)
  \/ \E c \in CallIds, u \in AgentUrls : unregister(c, u)
  \/ \E c \in CallIds : Fetched(c)
  \/ \E c \in CallIds : registerWrite(c)
  \/ \E c \in CallIds : refreshWrite(c)
  \/ \E c \in CallIds, u \in AgentUrls : get(c, u)

\* The registry starts empty; the Task collection plays no part in it.
InitRegistry ==
  /\ tasks = [t \in TaskIds |-> NoDoc]
  /\ InitLocals
  /\ groqApiKey

SpecRegistry == InitRegistry /\ [][NextRegistry]_vars

\* The registries the orchestrator is run against: no agent; one agent that
\* declares no skill and one that declares one; two agents with the skill.
Registries == {
  <<>>,
  upsert(upsert(<<>>, "http://a.test", Descriptor("http://a.test", 1), 0), "http://b.test", Descriptor("http://b.test", 2), 0),
  upsert(upsert(<<>>, "http://a.test", Descriptor("http://a.test", 2), 0), "http://b.test", Descriptor("http://b.test", 2), 0) }

\* The messages, the tasks of the agents and the polls, side by side.
NextOrchestrator ==
  \/ \E m \in MsgIds, text \in Messages : message(m, text)
  \/ \E m \in MsgIds : dispatch(m)
  \/ \E x \in RemoteIds : agentEnds(x)
  \/ \E p \in PollIds, l \in LocalIds : getTask(p, l)
  \/ \E p \in PollIds : agentAnswers(p)

\* The agents were registered before; no call of the registry is going on.
InitOrchestrator ==
  /\ tasks = [t \in TaskIds |-> NoDoc]
  /\ InitIdle
  /\ groqApiKey
  /\ registry \in Registries

SpecOrchestrator == InitOrchestrator /\ [][NextOrchestrator]_vars

\* The course chat: messages sent, their polls and their tasks.
NextChat ==
  \/ \E text \in Inputs : sendMessage(text)
  \/ \E c \in 1..Len(chats) : sendMessageSettles(c)
  \/ \E c \in 1..Len(chats), q \in RequestIds : pollingCallback(c, q)
  \/ \E q \in RequestIds : pollingSettles(q)
  \/ \E c \in 1..Len(chats) : taskEnds(c)

SpecChat == InitRegistry /\ [][NextChat]_vars

\* ------------------------------------------------------------------ claims

\* The place of a status in the pipeline; FAILED and DONE both end it.
Rank(st) ==
  CASE st = NONE -> 0
    [] st = "PENDING" -> 1
    [] st = "DOWNLOADING" -> 2
    [] st = "EXTRACTING_AUDIO" -> 3
    [] st = "TRANSCRIBING" -> 4
    [] st = "DONE" -> 5
    [] st = "FAILED" -> 5

\* Status b may be seen after status a.
MayFollow(a, b) == Rank(b) >= Rank(a) /\ (a \in Terminal => b = a)

Exists(t) == tasks[t] # NoDoc

\* The messages that the external work of a stage throws.
StageErrors == {
  "Download failed: No response received from server.",
  "Download failed: Server responded with status 404",
  "Download stream error: aborted",
  "Failed to write video file: ENOSPC",
  "ffmpeg error: conversion failed",
  "EACCES: permission denied, mkdir",
  "ffmpeg splitting error: conversion failed",
  "Audio splitting failed to produce chunk files for a large input.",
  "Transcription failed: Groq API Key is not configured." }

\* The paths a run for t can create under the temporary directory.
ArtifactsOf(t) ==
  {TempFilePath(t, u) : u \in VideoUrls}
    \cup {getFullAudioPath(TempFilePath(t, u)) : u \in VideoUrls}
    \cup {ChunkDir(t)}

\* The state where the catch and finally blocks of a run stand.
Unwinding == {"upd_FAILED", "cleanup_files", "cleanup_chunks", "returned"}

\* C1: the status stored for a task, and the status a reader of
\* getTaskStatus sees, never move back in the order PENDING < DOWNLOADING <
\* EXTRACTING_AUDIO < TRANSCRIBING < DONE, and FAILED is entered only from a
\* status that is not terminal.
C1_StatusNeverMovesBack ==
  [][\A t \in TaskIds :
       /\ (tasks[t] # NoDoc /\ tasks'[t] # NoDoc) => MayFollow(tasks[t].status, tasks'[t].status)
       /\ MayFollow(polled[t], polled'[t])
       /\ MayFollow(fetched[t].status, fetched'[t].status)]_vars

\* C1 witness: a reader saw TRANSCRIBING and the task has since ended.
C1_Witness == \E t \in TaskIds : Exists(t) /\ polled[t] = "TRANSCRIBING" /\ tasks[t].status \in Terminal

\* C2: once the status is DONE or FAILED, no step changes the status, the
\* result or the error of the document, and a read that returned a terminal
\* status is repeated unchanged by every later read.
C2_TerminalIsImmutable ==
  [][\A t \in TaskIds :
       /\ (Exists(t) /\ tasks[t].status \in Terminal) => tasks'[t] = tasks[t]
       /\ polled[t] \in Terminal => polled'[t] = polled[t]
       /\ fetched[t].status \in Terminal => fetched'[t] = fetched[t]]_vars

\* C2 witness: a DONE task was read through both endpoints after its run ended.
C2_Witness == \E t \in TaskIds : pc[t] = "returned" /\ polled[t] = "DONE" /\ fetched[t].status = "DONE"

\* C3: every started run on an existing document leads to DONE or FAILED,
\* unless a store write failed.
C3_EventuallyTerminal ==
  \A t \in Followed :
    (pc[t] # "idle" /\ Exists(t)) ~> ((Exists(t) /\ tasks[t].status \in Terminal) \/ storeFailed[t])

\* C4: when a run has returned and the task is DONE or FAILED (and no started
\* removal is still pending), no artifact of the task is on disk.
C4_NoArtifactLeft ==
  \A t \in TaskIds :
    (pc[t] = "returned" /\ Exists(t) /\ tasks[t].status \in Terminal /\ detached = {})
      => disk \cap ArtifactsOf(t) = {}

\* C5: every exit of a started run passes through the cleanup, in order: an
\* error enters the catch block, the catch block ends in the finally block
\* also when the FAILED write is rejected, cleanupFiles on the two paths
\* comes before cleanupChunks, and the run returns only after cleanupChunks.
C5_CleanupOnEveryExit ==
  [][\A t \in TaskIds :
       /\ (error[t] = NULL /\ error'[t] # NULL) => pc'[t] = "upd_FAILED"
       /\ (pc[t] = "upd_FAILED" /\ pc'[t] # pc[t]) => pc'[t] = "cleanup_files"
       /\ (pc[t] = "upd_DONE" /\ pc'[t] # pc[t]) => pc'[t] \in {"cleanup_files", "upd_FAILED"}
       /\ (pc'[t] = "cleanup_chunks" /\ pc[t] # pc'[t]) =>
            (pc[t] = "cleanup_files" /\ {tempVideoPath[t], tempFullPath[t]} \cap disk' = {})
       /\ (pc'[t] = "returned" /\ pc[t] # pc'[t]) =>
            (pc[t] = "cleanup_chunks" /\ ChunkDir(t) \notin disk')]_vars

\* C5 witness: a stage failed, the FAILED write was rejected, and the run
\* returned through the cleanup.
C5_Witness == \E t \in TaskIds : pc[t] = "returned" /\ error[t] \in StageErrors /\ storeFailed[t]

\* C6: a run whose stages all succeeded leaves the task DONE, and
\* getTaskResult returns a transcript that is set and no error.
C6_SuccessGivesResult ==
  \A t \in TaskIds :
    (pc[t] = "returned" /\ error[t] = NULL /\ Exists(t))
      => /\ tasks[t].status = "DONE"
         /\ IsSet(TaskResultBody(tasks[t]).transcript)
         /\ ~IsSet(TaskResultBody(tasks[t]).error)

\* C7 as stated: a run in which a stage threw ends with the task FAILED, a
\* message set and no result.
C7_StageFailureEndsFailed ==
  \A t \in TaskIds :
    (pc[t] = "returned" /\ error[t] \in StageErrors /\ Exists(t))
      => /\ tasks[t].status = "FAILED"
         /\ IsSet(TaskResultBody(tasks[t]).error)
         /\ ~IsSet(TaskResultBody(tasks[t]).transcript)

\* C7 amended: once a stage threw, no later stage is run; and when the FAILED
\* write was not rejected the run ends with the task FAILED, the error being
\* "Task failed: " and the thrown message, and no result.
C7_StageFailureEndsFailedUnlessStoreFails ==
  [][\A t \in TaskIds :
       /\ error[t] # NULL => (pc'[t] \in Unwinding /\ error'[t] = error[t])
       /\ (pc'[t] = "returned" /\ error'[t] \in StageErrors /\ tasks'[t] # NoDoc /\ ~storeFailed'[t])
            => /\ tasks'[t].status = "FAILED"
               /\ TaskResultBody(tasks'[t]).error = "Task failed: " \o error'[t]
               /\ ~IsSet(TaskResultBody(tasks'[t]).transcript)
               /\ ~IsSet(tasks'[t].text)]_vars

\* C7 witness: the download failed and the task ended FAILED.
C7_Witness ==
  \E t \in TaskIds :
    /\ pc[t] = "returned" /\ Exists(t) /\ tasks[t].status = "FAILED"
    /\ error[t] = "Download failed: No response received from server."
    /\ tempFullPath[t] = NoPath

\* C8: a document has a result only when DONE and an error only when FAILED.
C8_ResultOnlyDoneErrorOnlyFailed ==
  \A t \in TaskIds :
    Exists(t) =>
      /\ (IsSet(tasks[t].text) \/ IsSet(TaskResultBody(tasks[t]).transcript)) => tasks[t].status = "DONE"
      /\ IsSet(tasks[t].errorMessage) => tasks[t].status = "FAILED"

\* C8 witness: a FAILED document with its message.
C8_Witness == \E t \in TaskIds : Exists(t) /\ tasks[t].status = "FAILED" /\ IsSet(tasks[t].errorMessage)

\* C9: a submission with a valid videoUrl that was answered, the store not
\* having failed, was answered 202 with the id of a stored PENDING document.
C9_ValidSubmitAccepted ==
  \A r \in ReqIds :
    (reqs[r].phase = "responded" /\ reqs[r].videoUrl \in ValidUrls /\ reqs[r].logged # StoreError)
      => /\ reqs[r].code = 202
         /\ reqs[r].taskId \in TaskIds
         /\ tasks[reqs[r].taskId] # NoDoc

\* C10: a submission whose videoUrl is missing or not parseable is answered
\* 400 at once, with no document created and no run started; and a save that
\* fails is answered 500 with no document created and no run started.
C10_RejectedBeforeAnyRecord ==
  [][\A r \in ReqIds :
       /\ (reqs[r].phase = "none" /\ reqs'[r].phase # "none" /\ reqs'[r].videoUrl \notin ValidUrls)
            => (reqs'[r].phase = "responded" /\ reqs'[r].code = 400 /\ tasks' = tasks /\ pc' = pc)
       /\ (reqs[r].phase = "saving" /\ reqs'[r].phase # "saving" /\ reqs'[r].code # 202)
            => (reqs'[r].code = 500 /\ tasks' = tasks /\ pc' = pc)]_vars

\* C10 witness: one submission was rejected for its format, another because
\* the save failed.
C10_Witness ==
  \E r1, r2 \in ReqIds :
    /\ reqs[r1].code = 400 /\ reqs[r1].videoUrl = VideoUrlNoScheme
    /\ reqs[r2].code = 500 /\ reqs[r2].videoUrl \in ValidUrls

\* C11: the await of the FAILED write settles once and the run goes on to
\* the cleanup whatever the outcome, never to the same write again and never
\* out of the function; the document is then FAILED, or, the write having
\* been rejected, what it was before; and the cleanup that follows runs to
\* its end.
C11_RejectedFailedWriteIsSwallowed ==
  /\ [][\A t \in TaskIds :
          (pc[t] = "upd_FAILED" /\ <<pc[t], storeFailed[t], tasks[t]>>' # <<pc[t], storeFailed[t], tasks[t]>>)
            => /\ pc'[t] = "cleanup_files"
               /\ (tasks'[t] # tasks[t] => tasks'[t].status = "FAILED")
               /\ (storeFailed'[t] # storeFailed[t] => tasks'[t] = tasks[t])]_vars
  /\ \A t \in Followed : (pc[t] = "cleanup_files") ~> (pc[t] = "returned")

\* C11 witness: a stage failed in DOWNLOADING, the FAILED write was rejected,
\* the run returned with its files removed, and the document is still
\* DOWNLOADING.
C11_Witness ==
  \E t \in TaskIds :
    /\ pc[t] = "returned" /\ storeFailed[t] /\ error[t] \in StageErrors
    /\ Exists(t) /\ tasks[t].status = "DOWNLOADING" /\ ~IsSet(tasks[t].errorMessage)
    /\ disk \cap ArtifactsOf(t) = {}

\* The positions of a run of processVideoTask.
Positions == {
  "idle", "upd_DOWNLOADING", "download", "upd_EXTRACTING_AUDIO", "extract", "split", "split_unsettled",
  "upd_TRANSCRIBING", "transcribe", "upd_DONE", "upd_FAILED", "cleanup_files", "cleanup_chunks", "returned" }

WritePositions == {"upd_DOWNLOADING", "upd_EXTRACTING_AUDIO", "upd_TRANSCRIBING", "upd_DONE", "upd_FAILED"}

AllArtifacts(t) == ArtifactsOf(t) \cup {ChunkPath(t, i) : i \in 1..MaxChunks}

\* The paths the run for t holds in its locals.
LocalPaths(t) ==
  ({tempVideoPath[t], tempFullPath[t]} \ {NoPath}) \cup {audioChunkPaths[t][i] : i \in 1..Len(audioChunkPaths[t])}

\* C14: the paths of two distinct tasks are disjoint: those each run can
\* create, and those each run holds; every path on disk is a path of its
\* task; and a path of a task leaves the disk only in a step of the run of
\* that task or when a removal started by that run completes.
C14_TemporaryPathsDisjoint ==
  /\ [](\A t, s \in TaskIds :
          t # s => /\ AllArtifacts(t) \cap AllArtifacts(s) = {}
                   /\ LocalPaths(t) \cap LocalPaths(s) = {}
                   /\ LocalPaths(t) \subseteq AllArtifacts(t))
  /\ [][\A s \in TaskIds : \A p \in (disk \ disk') \cap AllArtifacts(s) : pc'[s] # pc[s] \/ p \in detached]_vars

\* C14 witness: the run of one task has returned through its cleanup while
\* the files and the chunk directory of another are on disk.
C14_Witness ==
  \E t, s \in TaskIds :
    /\ t # s /\ pc[t] = "returned" /\ tempFullPath[t] # NoPath /\ Len(audioChunkPaths[t]) > 0
    /\ pc[s] = "transcribe" /\ {tempVideoPath[s], tempFullPath[s], ChunkDir(s)} \subseteq disk

NoResponse == "Download failed: No response received from server."

\* C15 as stated: a run whose download was given up for want of a response
\* ends with the task FAILED.
C15_TimeoutEndsFailed ==
  \A t \in TaskIds :
    (pc[t] = "returned" /\ error[t] = NoResponse /\ Exists(t)) => tasks[t].status = "FAILED"

\* C15 amended: the await of the download always settles; a download given
\* up for want of a response enters the catch block with its partial file
\* removed; and the task is then written FAILED, unless the store rejects
\* that write.
C15_TimeoutEndsFailedUnlessStoreFails ==
  /\ \A t \in Followed : (pc[t] = "download") ~> (pc[t] \in {"upd_EXTRACTING_AUDIO", "upd_FAILED"})
  /\ [][\A t \in TaskIds :
          (pc[t] = "download" /\ error'[t] = NoResponse)
            => (pc'[t] = "upd_FAILED" /\ TempFilePath(t, videoUrl[t]) \notin disk')]_vars
  /\ \A t \in Followed :
       (pc[t] = "upd_FAILED" /\ error[t] = NoResponse /\ Exists(t))
         ~> ((pc[t] = "returned" /\ Exists(t) /\ tasks[t].status = "FAILED") \/ storeFailed[t])

\* C15 witness: the download was given up and the task ended FAILED.
C15_Witness ==
  \E t \in TaskIds :
    /\ pc[t] = "returned" /\ error[t] = NoResponse /\ ~storeFailed[t]
    /\ Exists(t) /\ tasks[t].status = "FAILED"

\* C16: every write of a document sets updatedAt to the time of the write
\* and leaves createdAt alone; updatedAt never decreases and is never older
\* than createdAt.
C16_UpdatedAtFollowsWrites ==
  /\ [][\A t \in TaskIds :
          (Exists(t) /\ tasks'[t] # tasks[t])
            => /\ tasks'[t].updatedAt = now
               /\ tasks'[t].createdAt = tasks[t].createdAt
          ]_vars
  /\ [][\A t \in TaskIds : Exists(t) => tasks'[t].updatedAt >= tasks[t].updatedAt]_vars
  /\ [](\A t \in TaskIds : Exists(t) => tasks[t].updatedAt >= tasks[t].createdAt)

\* C16 witness: a task written at several times: its last write is later
\* than its creation and earlier than now.
C16_Witness ==
  \E t \in TaskIds :
    /\ Exists(t) /\ tasks[t].status = "DONE" /\ pc[t] = "returned"
    /\ tasks[t].createdAt < tasks[t].updatedAt /\ tasks[t].updatedAt < now

\* A call c has just answered: this step ended it.
Answers(c) == calls'[c] # calls[c] /\ calls'[c].phase = "done"

\* C17: the collection never holds two records with one url, and every url
\* of a record is normalized; the write of a register call leaves exactly
\* one record for the normalized url, with the card that this call fetched,
\* and the records of the other urls as they were; and the card of a url
\* changes only when the write of a register or of a refresh of that url
\* succeeds, or when its record is deleted.
C17_RegisterIsUpsert ==
  /\ [](\A i, j \in 1..Len(list) : list[i].url = list[j].url => i = j)
  /\ [](\A i \in 1..Len(list) : list[i].url = Normalize(list[i].url) /\ list[i].url \in {Normalize(u) : u \in AgentUrls})
  /\ [][\A c \in CallIds :
          (calls[c].op = "register" /\ calls[c].phase = "writing" /\ Answers(c))
            => LET key == Normalize(calls[c].url) IN
                 /\ Cardinality(Find(registry', key)) = 1
                 /\ Lookup(registry', key).card = calls[c].card
                 /\ calls'[c].result = "ok" /\ calls'[c].returned = Lookup(registry', key)
                 /\ \A u \in AgentUrls : Normalize(u) # key => Lookup(registry', Normalize(u)) = Lookup(registry, Normalize(u))]_vars
  /\ [][\A u \in AgentUrls :
          Lookup(registry', Normalize(u)).card # Lookup(registry, Normalize(u)).card
            => \/ \E c \in CallIds : /\ calls[c].phase = "writing" /\ Answers(c)
                                     /\ Normalize(calls[c].url) = Normalize(u) /\ calls'[c].result = "ok"
               \/ Lookup(registry', Normalize(u)) = NoRecord]_vars

\* C17 witness: http://a.test was registered twice, one call after the
\* other, with two versions of the descriptor and under two spellings of the
\* url; the one record of the url has the later version.
C17_Witness ==
  /\ Len(list) = 1 /\ list[1].url = "http://a.test" /\ list[1].card.version = 2
  /\ calls["c1"].op = "register" /\ calls["c1"].url = "http://a.test" /\ calls["c1"].result = "ok"
  /\ calls["c1"].card.version = 1 /\ ~calls["c1"].overlapped
  /\ calls["c2"].op = "register" /\ calls["c2"].url = "http://a.test/" /\ calls["c2"].result = "ok"
  /\ calls["c2"].card.version = 2 /\ ~calls["c2"].overlapped

\* The descriptors that can be stored whole.
WholeCards == {Descriptor(Normalize(u), v) : u \in AgentUrls, v \in 1..MaxVersion}

\* C18: when two register calls of one url have both answered, however
\* their fetches and writes were interleaved, the url has exactly one
\* record, and its card is the card of one of the two calls; and every
\* stored card is a descriptor as it was fetched.
C18_ConcurrentRegisterConverges ==
  /\ \A c, d \in CallIds :
       (c # d /\ calls[c].op = "register" /\ calls[d].op = "register"
             /\ calls[c].result = "ok" /\ calls[d].result = "ok"
             /\ Normalize(calls[c].url) = Normalize(calls[d].url))
         => /\ Cardinality(Find(registry, Normalize(calls[c].url))) = 1
            /\ Lookup(registry, Normalize(calls[c].url)).card \in {calls[c].card, calls[d].card}
  /\ \A i \in 1..Len(registry) : registry[i].card \in WholeCards

\* C18 witness: two register calls of one url overlapped, fetched different
\* versions, and both answered.
C18_Witness ==
  \E c, d \in CallIds :
    /\ c # d /\ calls[c].op = "register" /\ calls[d].op = "register"
    /\ calls[c].result = "ok" /\ calls[d].result = "ok"
    /\ calls[c].overlapped /\ calls[d].overlapped
    /\ Normalize(calls[c].url) = Normalize(calls[d].url)
    /\ calls[c].card.version # calls[d].card.version
    /\ Len(registry) = 1 /\ registry[1].card = calls[c].card

\* The urls that have a record.
Registered(reg) == {reg[i].url : i \in 1..Len(reg)}

\* C19: a refresh called for a url that has no record answers NotFound at
\* once; so does the write of a refresh that finds the record gone; both
\* leave the collection as it was; and no step of a refresh adds a record
\* or removes one.
C19_RefreshOfUnknownUrl ==
  [][\A c \in CallIds :
       (calls'[c] # calls[c] /\ calls'[c].op = "refresh")
         => /\ Registered(registry') = Registered(registry) /\ Len(registry') = Len(registry)
            /\ (Find(registry, Normalize(calls'[c].url)) = {} /\ (~InFlight(c) \/ (calls[c].phase = "writing" /\ calls'[c].phase = "done")))
                 => (calls'[c].phase = "done" /\ calls'[c].result = "NotFound" /\ registry' = registry)]_vars

\* C19 witness: a refresh of http://b.test answered NotFound while another
\* url is registered, and the collection holds that other record alone.
C19_Witness ==
  \E c \in CallIds :
    /\ calls[c].op = "refresh" /\ calls[c].url = "http://b.test" /\ calls[c].result = "NotFound"
    /\ Len(registry) = 1 /\ registry[1].url = "http://a.test"

\* C20: a register call that answers UnreachableAgent or MalformedDescriptor
\* leaves the collection as it was.
C20_FailedRegisterPersistsNothing ==
  [][\A c \in CallIds :
       (Answers(c) /\ calls'[c].op = "register" /\ calls'[c].result \in {"UnreachableAgent", "MalformedDescriptor"})
         => registry' = registry]_vars

\* C20 witness: a url has a record with its first card, and two register
\* calls of that url have failed since, one for each reason.
C20_Witness ==
  /\ Len(registry) = 1 /\ registry[1].url = "http://a.test" /\ registry[1].card = Descriptor("http://a.test", 1)
  /\ calls["c1"].op = "register" /\ calls["c1"].result = "UnreachableAgent" /\ Normalize(calls["c1"].url) = "http://a.test"
  /\ calls["c2"].op = "register" /\ calls["c2"].result = "MalformedDescriptor" /\ Normalize(calls["c2"].url) = "http://a.test"

C25_SkippedChunkEndsDoneWithText ==
  \A t \in TaskIds :
    (/\ pc[t] = "returned" /\ Exists(t) /\ ~storeFailed[t]
     /\ Len(audioChunkPaths[t]) = 2
     /\ transcript[t] = TextOf(audioChunkPaths[t][2]))
      => /\ tasks[t].status = "DONE"
         /\ TaskResultBody(tasks[t]).transcript = transcript[t]

\* C26 as stated: a run whose transcription produced the empty text does not
\* end with the task DONE: it ends FAILED with the message of the empty text.
C26_EmptyTranscriptEndsFailed ==
  \A t \in TaskIds :
    (pc[t] = "returned" /\ Exists(t) /\ ~storeFailed[t] /\ transcript[t] = "")
      => /\ tasks[t].status = "FAILED"
         /\ TaskResultBody(tasks[t]).error = "Task failed: Transcription resulted in empty text."

\* C27 as stated: splitAudio always settles: the run leaves the splitting
\* either for the TRANSCRIBING write or, by a rejection, for the FAILED write.
C27_SplitAudioSettles ==
  [][\A t \in TaskIds :
       (pc[t] = "split" /\ pc'[t] # "split") => pc'[t] \in {"upd_TRANSCRIBING", "upd_FAILED"}]_vars

\* The messages thrown when an update returns no document.
NotFoundErrors == {
  "Task not found after initial update.",
  "Task not found before audio extraction.",
  "Task not found before transcription.",
  "Task not found when saving final result." }

\* C28: a status update that finds no record stops the run: its next position
\* is the catch block, and from the catch block on no stage is run any more;
\* no step of the processor creates a record, the FAILED write included,
\* which goes on to the cleanup; and a run that entered the catch block
\* returns, after the cleanup.
C28_MissingRecordStopsTheRun ==
  /\ [][\A t \in TaskIds :
          /\ (pc'[t] # pc[t] /\ tasks[t] = NoDoc) => tasks'[t] = NoDoc
          /\ (pc'[t] # pc[t] /\ tasks[t] = NoDoc /\ pc[t] \in WritePositions \ {"upd_FAILED"})
               => (pc'[t] = "upd_FAILED" /\ error'[t] \in NotFoundErrors \cup {StoreError})
          /\ (pc'[t] # pc[t] /\ tasks[t] = NoDoc /\ pc[t] = "upd_FAILED") => pc'[t] = "cleanup_files"
          /\ pc[t] \in Unwinding => pc'[t] \in Unwinding
          /\ pc'[t] = "cleanup_chunks" => pc[t] \in {"cleanup_files", "cleanup_chunks"}
          /\ (pc'[t] = "returned" /\ pc[t] # "returned") => pc[t] = "cleanup_chunks"]_vars
  /\ \A t \in Followed : (pc[t] = "upd_FAILED") ~> (pc[t] = "returned")

\* C28 witness: the record was removed while the audio was being extracted;
\* the TRANSCRIBING write found none, and the run has returned with no record.
C28_Witness ==
  /\ pc["t1"] = "returned"
  /\ tasks["t1"] = NoDoc
  /\ error["t1"] = "Task not found before transcription."
  /\ ~storeFailed["t1"]

\* No skill of any registered agent is named by the text.
NoSkillMatches(text) ==
  \A i \in 1..Len(registry) : \A k \in 1..Len(registry[i].card.skills) : ~Contains(text, registry[i].card.skills[k])

\* C22: a message that passed validation and matches no skill of any
\* registered agent is answered in the step that receives it, with
\* NoCapableAgent and without a task id; that step creates no DispatchSession
\* and sends no task to an agent, and the answer is never changed afterwards.
C22_NoCapableAgent ==
  /\ [][\A m \in MsgIds :
          /\ (msgs[m].phase = "none" /\ msgs'[m].phase # "none" /\ msgs'[m].message # "" /\ NoSkillMatches(msgs'[m].message))
               => /\ msgs'[m].phase = "answered"
                  /\ msgs'[m].error = "NoCapableAgent"
                  /\ msgs'[m].taskId = NONE
                  /\ sessions' = sessions
                  /\ remote' = remote
          /\ msgs[m].error = "NoCapableAgent" => msgs'[m] = msgs[m]]_vars
  /\ [](\A m \in MsgIds : msgs[m].phase = "dispatching" => ~NoSkillMatches(msgs[m].message))
  /\ [](\A l \in LocalIds : sessions[l] # NoSession =>
          \E i \in 1..Len(registry) : registry[i].url = sessions[l].agentUrl /\ registry[i].card.skills # <<>>)

\* C22 witness: agents are registered, one message was dispatched to one of
\* them, and the other message was answered NoCapableAgent; one session.
C22_Witness ==
  /\ registry # <<>>
  /\ msgs["m1"].error = "NoCapableAgent" /\ msgs["m1"].message = "translate this"
  /\ msgs["m2"].taskId = "l1"
  /\ sessions["l1"] # NoSession /\ sessions["l2"] = NoSession
  /\ remote["x2"] = "none"

\* A step in which the query of poll p is answered.
Answered(p) == tpolls[p].phase = "querying" /\ tpolls'[p].phase = "answered"

\* A step in which poll p is begun.
Begun(p) == tpolls[p].phase # "querying" /\ tpolls'[p] # tpolls[p]

\* What the polls share whether or not the agent can be reached: only
\* terminal results are cached, a cached result never changes, and a poll
\* begun when the result of its task is cached returns it without a query.
CacheIsTerminalAndFinal ==
  /\ [](\A l \in LocalIds : relayed[l] # NoRelay => relayed[l].status \in RelayTerminal)
  /\ [][/\ \A l \in LocalIds : relayed[l] # NoRelay => relayed'[l] = relayed[l]
        /\ \A p \in PollIds :
             (Begun(p) /\ relayed[tpolls'[p].taskId] # NoRelay)
               => /\ tpolls'[p].phase = "answered"
                  /\ ~tpolls'[p].queried
                  /\ tpolls'[p].status = relayed[tpolls'[p].taskId].status
                  /\ tpolls'[p].content = relayed[tpolls'[p].taskId].content]_vars

\* The answer of poll p relays the status st of the remote task: pending is
\* returned and nothing is cached while the task works, and the terminal
\* status is returned and cached when it has ended.
Relays(p, st) ==
  LET l == tpolls[p].taskId IN
  /\ tpolls'[p].error = NONE
  /\ tpolls'[p].status = (CASE st = "working" -> "pending" [] st = "completed" -> "done" [] OTHER -> "failed")
  /\ IF st = "working"
     THEN relayed' = relayed
     ELSE relayed' = [relayed EXCEPT ![l] = [status |-> tpolls'[p].status, content |-> tpolls'[p].content]]

C24_SessionWrittenOnce ==
  /\ [][\A l \in LocalIds :
          /\ sessions[l] # NoSession => sessions'[l] = sessions[l]
          /\ sessions'[l] # sessions[l] =>
               \E m \in MsgIds : msgs[m].phase = "dispatching" /\ msgs'[m].phase = "answered" /\ msgs'[m].taskId = l]_vars
  /\ [](\A l \in LocalIds : sessions[l] # NoSession =>
          /\ sessions[l].localTaskId = l
          /\ sessions[l].remoteTaskId \in RemoteIds
          /\ remote[sessions[l].remoteTaskId] # "none")
  /\ [](\A l1, l2 \in LocalIds :
          (sessions[l1] # NoSession /\ sessions[l2] # NoSession /\ sessions[l1].remoteTaskId = sessions[l2].remoteTaskId) => l1 = l2)
  /\ [](\A m1, m2 \in MsgIds : (msgs[m1].taskId # NONE /\ msgs[m1].taskId = msgs[m2].taskId) => m1 = m2)

\* C24 witness: two messages were dispatched to different agents, the task
\* of the first has ended and its result was relayed and cached.
C24_Witness ==
  /\ sessions["l1"] # NoSession /\ sessions["l2"] # NoSession
  /\ sessions["l1"].agentUrl # sessions["l2"].agentUrl
  /\ relayed["l1"] # NoRelay
  /\ tpolls["p1"].taskId = "l1" /\ tpolls["p2"].taskId = "l2" /\ tpolls["p2"].status = "pending"

\* The messages the user sent, and the replies of the assistant that are in
\* the conversation (the welcome and the temporary message are no replies).
Sent == Cardinality({i \in 1..Len(messages) : messages[i].role = "user"})
Replies ==
  Cardinality({i \in 1..Len(messages) : messages[i].role = "assistant" /\ ~messages[i].temporary /\ messages[i] # Welcome})

\* Nothing of the chat is going on: no post, no interval, no status request.
Quiet ==
  /\ ~isSending
  /\ \A c \in 1..Len(chats) : chats[c].phase \in {"stopped", "ended"}
  /\ \A q \in RequestIds : requests[q].phase # "inflight"

\* C29 as stated: the conversation never holds more replies than messages
\* sent, and when nothing is going on any more it holds exactly one reply
\* for each message sent.
C29_ExactlyOneReply ==
  /\ Replies <= Sent
  /\ Quiet => Replies = Sent

\* A step in which status request q returns.
Returns(q) == requests[q].phase = "inflight" /\ requests'[q].phase = "returned"

\* C30: a status request that returns completed, failed or canceled, or that
\* throws, leaves the interval of its call cleared and isSending reset; a
\* request that returns another status changes nothing of the call, the
\* conversation or isSending; a status request is started only while the
\* interval of its call is not cleared, and a cleared interval is never set
\* again; and as long as the interval is not cleared a further request can be
\* started, whatever the number of requests made before.
C30_PollingStopsOnTerminalOrThrow ==
  /\ [][\A q \in RequestIds :
          /\ Returns(q) =>
               IF requests'[q].response \in {"completed", "failed", "canceled", "throws"}
               THEN ~chats'[requests[q].call].polling /\ ~isSending'
               ELSE chats' = chats /\ messages' = messages /\ isSending' = isSending
          /\ (requests'[q].phase = "inflight" /\ requests[q].phase # "inflight")
               => (chats[requests'[q].call].polling /\ chats' = chats)]_vars
  /\ [][\A c \in 1..Len(chats) : chats[c].phase \in {"stopped", "ended"} => chats'[c] = chats[c]]_vars
  /\ [](\A c \in 1..Len(chats) : \A q \in RequestIds :
          (chats[c].polling /\ requests[q].phase # "inflight") => ENABLED pollingCallback(c, q))

\* C30 witness: a status request of the first message threw and its interval
\* is cleared while another request of it is still in flight; sending is
\* enabled again, and the temporary message is still in the conversation.
C30_Witness ==
  /\ Len(chats) = 1 /\ chats[1].phase = "stopped" /\ ~chats[1].polling
  /\ requests[1].response = "throws" /\ requests[1].phase = "returned"
  /\ requests[2].phase = "inflight" /\ requests[2].call = 1
  /\ ~isSending
  /\ \E i \in 1..Len(messages) : messages[i].temporary

====
